---------------------------- MODULE Spec2Model ----------------------------
(***************************************************************************)
(* A model of DataSource.py: the Cornell movie-dialogs corpus indexer and  *)
(* its pair extractors, the train/test partitioner, the file writer and    *)
(* the Ubuntu dialog corpus provisioning check.                            *)
(*                                                                         *)
(* A corpus file is a sequence of rows.  A row is the record of the fields *)
(* the code reads from it, each field being what                           *)
(* line.split("+++$+++")[i].strip() yields.  A Python dict is a sequence   *)
(* of <<key, value>> pairs with pairwise distinct keys, in insertion       *)
(* order, which is the order Python iterates it in.  A string the code     *)
(* looks into (a character name, a year, a written line) is a sequence of  *)
(* characters; a string the code only copies (a line's text, an ID) is an  *)
(* atom.                                                                   *)
(***************************************************************************)
EXTENDS Integers, Sequences, FiniteSets, TLC

VARIABLES
    convFile,       \* movie_conversations.txt: one sequence of line IDs per row
    linesFile,      \* movie_lines.txt: rows [id, char, movie, text]
    metaFile,       \* movie_characters_metadata.txt: rows [id, name]
    titlesFile,     \* movie_titles_metadata.txt: rows [id, year]
    loaded,         \* whether _CornellMovieCorpus.__init__ has run
    conversations,  \* self.conversations
    lineMap,        \* self._lineMap
    charMap,        \* self._charMap
    prevLineMap,    \* self._prevLineMap
    outDir,         \* whether the output directory exists
    outFiles,       \* the output directory's files: name -> content or Absent
    ubuntuDir,      \* whether data/ubuntu_dialog_corpus exists
    trainCsv,       \* train.csv in it: [exists, rows]
    history,        \* the outcomes of the Ubuntu corpus calls made so far
    last            \* the last call made: its operation, arguments and outcome

vars == <<convFile, linesFile, metaFile, titlesFile, loaded, conversations,
          lineMap, charMap, prevLineMap, outDir, outFiles, ubuntuDir,
          trainCsv, history, last>>

cornellFiles == <<convFile, linesFile, metaFile, titlesFile>>
cornellObject == <<loaded, conversations, lineMap, charMap, prevLineMap>>
writerState == <<outDir, outFiles>>
ubuntuState == <<ubuntuDir, trainCsv, history>>

-----------------------------------------------------------------------------
(* Values *)

None == "None"
\* None where a name, a sequence of characters, is expected.
NoName == <<None>>
\* A file that does not exist, where a content (a sequence) is expected.
NoFile == <<"Absent">>
NoCall == [op |-> "none"]

LineIds == {"L1", "L2", "L3"}
CharIds == {"u0", "u1"}
MovieIds == {"m0", "m1"}

\* Character names as the metadata file spells them, and as callers ask for them.
MetaNames == {<<"A", "l">>, <<"A", "L">>, <<"a", "l">>, <<"B", "o">>}
QueryNames == MetaNames \cup {<<"b", "O">>, <<"C", "y">>}

\* Release years, and the years asked for.
Years == {<<"1", "9", "4", "0">>, <<"1", "9", "4", "9">>, <<"1", "9", "5", "0">>}

Min(a, b) == IF a <= b THEN a ELSE b

Range(s) == {s[i] : i \in DOMAIN s}

SeqsUpTo(S, n) == UNION {[1..k -> S] : k \in 0..n}

\* Bounds of the model.
MaxConvs == 2       \* rows of movie_conversations.txt
MaxTokens == 5      \* line IDs in movie_conversations.txt, all rows together
MaxPairConvs == 1   \* the same two, where the line table varies too
MaxPairTokens == 3
MaxLines == 2       \* rows of movie_lines.txt
MaxMeta == 2        \* rows of movie_characters_metadata.txt
MaxTitles == 2      \* rows of movie_titles_metadata.txt
MaxYearLines == 3   \* rows of movie_lines.txt, where the titles vary too
MaxCols == 2        \* columns passed to makeTrainTest
MaxLen == 5         \* length of a column
MaxDen == 4         \* denominator of testPercent
MaxWriteLines == 3  \* strings passed to writeToFile, per list
MaxCsvRows == 2     \* rows of train.csv
MaxCalls == 3       \* calls made on the Ubuntu corpus

\* Written strings, and the two file stems __main__ writes.
Strs == {<<>>, <<"h", "i">>}
FileStems == {"train", "test"}
FileNames == FileStems \X {"enc", "dec"}

\* The columns passed to makeTrainTest: entry i of column a is <<a, i>>.
Column(a, n) == [i \in 1..n |-> <<a, i - 1>>]
ArgLists ==
    UNION {{[a \in 1..c |-> Column(a, lens[a])] : lens \in [1..c -> 0..MaxLen]} :
           c \in 0..MaxCols}

\* testPercent as <<num, den>>: every fraction in [0, 1] with a denominator up
\* to MaxDen, and the default 0.1.
TestPercents ==
    {f \in (0..MaxDen) \X (1..MaxDen) : f[1] <= f[2]} \cup {<<1, 10>>}

-----------------------------------------------------------------------------
(* Python dicts *)

DictHas(d, k) == \E i \in DOMAIN d : d[i][1] = k

DictGet(d, k) == d[CHOOSE i \in DOMAIN d : d[i][1] = k][2]

DictKeys(d) == [i \in DOMAIN d |-> d[i][1]]

\* A faulty variant: d.setdefault(k, v), which keeps an existing entry.
DictSetDefault(d, k, v) == IF DictHas(d, k) THEN d ELSE Append(d, <<k, v>>)

\* d[k] = v: an existing key keeps its place in the iteration order.
DictSet(d, k, v) ==
    IF DictHas(d, k)
    THEN [i \in DOMAIN d |-> IF d[i][1] = k THEN <<k, v>> ELSE d[i]]
    ELSE Append(d, <<k, v>>)

\* d.update(pairs): the pairs are assigned in order.
RECURSIVE DictUpdate(_, _)
DictUpdate(d, pairs) ==
    IF pairs = <<>> THEN d
    ELSE DictUpdate(DictSet(d, pairs[1][1], pairs[1][2]), Tail(pairs))

\* zip(a, b)
Zip(a, b) == [i \in 1..Min(Len(a), Len(b)) |-> <<a[i], b[i]>>]

\* s[1:] and s[:-1]
DropFirst(s) == SubSeq(s, 2, Len(s))
DropLast(s) == SubSeq(s, 1, Len(s) - 1)

-----------------------------------------------------------------------------
(* _CornellMovieCorpus.__init__ *)

\* str.lower() on the characters that occur in the modelled names.
LowerChar(c) ==
    CASE c = "A" -> "a"
      [] c = "B" -> "b"
      [] c = "C" -> "c"
      [] c = "L" -> "l"
      [] c = "O" -> "o"
      [] c = "Y" -> "y"
      [] OTHER -> c

Lower(name) == [i \in DOMAIN name |-> LowerChar(name[i])]

\* self.conversations: the line IDs of each row's last field, in row order.
ParseConversations(file) == [r \in DOMAIN file |-> file[r]]

\* self._lineMap[lineId] = text, row after row.
RECURSIVE BuildLineMap(_, _)
BuildLineMap(d, rows) ==
    IF rows = <<>> THEN d
    ELSE BuildLineMap(DictSet(d, rows[1].id, rows[1].text), Tail(rows))

\* self._charMap[name.lower()] = id, row after row.
RECURSIVE BuildCharMap(_, _)
BuildCharMap(d, rows) ==
    IF rows = <<>> THEN d
    ELSE BuildCharMap(DictSet(d, Lower(rows[1].name), rows[1].id), Tail(rows))

\* A faulty variant: zip(lineIds[:-1], lineIds[1:]), each line to its successor.
SuccPairs(lineIds) == Zip(DropLast(lineIds), DropFirst(lineIds))

\* The pairs one conversation contributes: zip(lineIds[1:], lineIds[:-1]).
PrevPairs(lineIds) == Zip(DropFirst(lineIds), DropLast(lineIds))

\* self._prevLineMap.update(...), conversation after conversation.
RECURSIVE BuildPrevLineMap(_, _)
BuildPrevLineMap(d, convs) ==
    IF convs = <<>> THEN d
    ELSE BuildPrevLineMap(DictUpdate(d, PrevPairs(convs[1])), Tail(convs))

CornellInit ==
    /\ ~loaded
    /\ loaded' = TRUE
    /\ conversations' = ParseConversations(convFile)
    /\ lineMap' = BuildLineMap(<<>>, linesFile)
    /\ charMap' = BuildCharMap(<<>>, metaFile)
    /\ prevLineMap' = BuildPrevLineMap(<<>>, ParseConversations(convFile))
    /\ last' = [op |-> "init"]
    /\ UNCHANGED <<cornellFiles, writerState, ubuntuState>>

-----------------------------------------------------------------------------
(* _CornellMovieCorpus.getData *)

\* A faulty variant: the prompt taken from the line itself.
getDataSelfPrompt ==
    LET keys == DictKeys(prevLineMap)
    IN  IF \E i \in DOMAIN keys : ~DictHas(lineMap, keys[i])
        THEN [op |-> "getData", err |-> "KeyError"]
        ELSE [op |-> "getData", err |-> "none",
              prompt |-> [i \in DOMAIN keys |-> DictGet(lineMap, keys[i])],
              response |-> [i \in DOMAIN keys |-> DictGet(lineMap, keys[i])]]

getData ==
    LET keys == DictKeys(prevLineMap)
        known(i) == /\ DictHas(lineMap, DictGet(prevLineMap, keys[i]))
                    /\ DictHas(lineMap, keys[i])
    IN  IF \E i \in DOMAIN keys : ~known(i)
        THEN [op |-> "getData", err |-> "KeyError"]
        ELSE [op |-> "getData", err |-> "none",
              prompt |-> [i \in DOMAIN keys |->
                             DictGet(lineMap, DictGet(prevLineMap, keys[i]))],
              response |-> [i \in DOMAIN keys |-> DictGet(lineMap, keys[i])]]

GetData ==
    /\ loaded
    /\ last' = getData
    /\ UNCHANGED <<cornellFiles, cornellObject, writerState, ubuntuState>>

-----------------------------------------------------------------------------
(* _CornellMovieCorpus.characterToId and getCharacter *)

\* A faulty variant: the name looked up as given, not lower-cased.
characterToIdAsGiven(character) ==
    IF Len(charMap) # 0
    THEN IF DictHas(charMap, character)
         THEN [err |-> "none", id |-> DictGet(charMap, character)]
         ELSE [err |-> "KeyError", id |-> None]
    ELSE [err |-> "none", id |-> None]

\* The value returned, or the exception raised, as [err, id].
characterToId(character) ==
    IF Len(charMap) # 0
    THEN IF character = NoName
         THEN [err |-> "AttributeError", id |-> None]
         ELSE IF DictHas(charMap, Lower(character))
              THEN [err |-> "none", id |-> DictGet(charMap, Lower(character))]
              ELSE [err |-> "KeyError", id |-> None]
    ELSE [err |-> "none", id |-> None]

CharacterToId ==
    /\ loaded
    /\ \E name \in QueryNames :
          last' = [op |-> "characterToId", name |-> name] @@ characterToId(name)
    /\ UNCHANGED <<cornellFiles, cornellObject, writerState, ubuntuState>>

\* A faulty variant: the loop without the test of the row's character.
RECURSIVE CharacterLoopAnyone(_, _, _)
CharacterLoopAnyone(acc, rows, characterId) ==
    IF rows = <<>> \/ acc.err # "none" THEN acc
    ELSE LET row == rows[1]
             hit == DictHas(prevLineMap, row.id)
             prev == DictGet(prevLineMap, row.id)
         IN  CharacterLoopAnyone(
               IF ~hit THEN acc
               ELSE IF ~DictHas(lineMap, prev) \/ ~DictHas(lineMap, row.id)
                    THEN [err |-> "KeyError", prompt |-> <<>>, response |-> <<>>]
                    ELSE [err |-> "none",
                          prompt |-> Append(acc.prompt, DictGet(lineMap, prev)),
                          response |-> Append(acc.response,
                                              DictGet(lineMap, row.id))],
               Tail(rows), characterId)

\* The loop over movie_lines.txt: the pairs appended so far, or the KeyError
\* of the first matching row whose predecessor has no text.
RECURSIVE CharacterLoop(_, _, _)
CharacterLoop(acc, rows, characterId) ==
    IF rows = <<>> \/ acc.err # "none" THEN acc
    ELSE LET row == rows[1]
             hit == row.char = characterId /\ DictHas(prevLineMap, row.id)
             prev == DictGet(prevLineMap, row.id)
         IN  CharacterLoop(
               IF ~hit THEN acc
               ELSE IF ~DictHas(lineMap, prev) \/ ~DictHas(lineMap, row.id)
                    THEN [err |-> "KeyError", prompt |-> <<>>, response |-> <<>>]
                    ELSE [err |-> "none",
                          prompt |-> Append(acc.prompt, DictGet(lineMap, prev)),
                          response |-> Append(acc.response,
                                              DictGet(lineMap, row.id))],
               Tail(rows), characterId)

\* characterId or self.characterToId(characterName), then the loop.
getCharacter(characterId, characterName) ==
    LET looked == IF characterId # None
                  THEN [err |-> "none", id |-> characterId]
                  ELSE characterToId(characterName)
    IN  IF looked.err # "none"
        THEN [err |-> looked.err, prompt |-> <<>>, response |-> <<>>]
        ELSE CharacterLoop([err |-> "none", prompt |-> <<>>, response |-> <<>>],
                           linesFile, looked.id)

GetCharacterById ==
    /\ loaded
    /\ \E c \in CharIds :
          last' = [op |-> "getCharacter", characterId |-> c,
                   characterName |-> NoName] @@ getCharacter(c, NoName)
    /\ UNCHANGED <<cornellFiles, cornellObject, writerState, ubuntuState>>

GetCharacterByName ==
    /\ loaded
    /\ \E name \in QueryNames \cup {NoName} :
          last' = [op |-> "getCharacter", characterId |-> None,
                   characterName |-> name] @@ getCharacter(None, name)
    /\ UNCHANGED <<cornellFiles, cornellObject, writerState, ubuntuState>>

-----------------------------------------------------------------------------
(* _CornellMovieCorpus.makeYearSubset and makeYearFiles *)

\* s[:3]
Prefix3(s) == SubSeq(s, 1, Min(3, Len(s)))

makeYearSubset(movieYear) ==
    {titlesFile[r].id : r \in {q \in DOMAIN titlesFile :
                                 Prefix3(titlesFile[q].year) = Prefix3(movieYear)}}

\* yearConversations: the text of every row of a movie of the subset, in file order.
RECURSIVE YearConversations(_, _)
YearConversations(rows, yearSubset) ==
    IF rows = <<>> THEN <<>>
    ELSE (IF rows[1].movie \in yearSubset THEN <<rows[1].text>> ELSE <<>>)
         \o YearConversations(Tail(rows), yearSubset)

\* The entries at the even (inputs) or odd (outputs) indices, counted from 0.
RECURSIVE Alternate(_, _, _)
Alternate(flat, i, parity) ==
    IF i >= Len(flat) THEN <<>>
    ELSE (IF i % 2 = parity THEN <<flat[i + 1]>> ELSE <<>>)
         \o Alternate(flat, i + 1, parity)

makeYearFiles(movieYear) ==
    LET flat == YearConversations(linesFile, makeYearSubset(movieYear))
    IN  [flat |-> flat,
         inputs |-> Alternate(flat, 0, 0),
         outputs |-> Alternate(flat, 0, 1)]

MakeYearFiles ==
    /\ loaded
    /\ \E year \in Years :
          last' = [op |-> "makeYearFiles", year |-> year] @@ makeYearFiles(year)
    /\ UNCHANGED <<cornellFiles, cornellObject, writerState, ubuntuState>>

-----------------------------------------------------------------------------
(* makeTrainTest *)

\* Python's round(num / den) for num >= 0 and den > 0: to the nearest integer,
\* a tie to the even one.
Round(num, den) ==
    LET low == num \div den
        twice == 2 * (num % den)
    IN  IF twice < den THEN low
        ELSE IF twice > den THEN low + 1
        ELSE IF low % 2 = 0 THEN low ELSE low + 1

\* sorted(S) for a finite set of integers.
RECURSIVE Sorted(_)
Sorted(S) ==
    IF S = {} THEN <<>>
    ELSE LET least == CHOOSE x \in S : \A y \in S : x <= y
         IN  <<least>> \o Sorted(S \ {least})

\* The number of indices random.sample is asked for: round(l * testPercent).
SampleSize(l, num, den) == Round(l * num, den)

\* The outcomes random.sample(range(l), k) can have, as sets.
Samples(l, k) == {S \in SUBSET (0..(l - 1)) : Cardinality(S) = k}

\* A faulty variant: the train indices taken from range(1, l).
TrainIndexSetFromOne(l, sample) == (1..(l - 1)) \ sample

\* set(range(l)) - testIndices
TrainIndexSet(l, sample) == (0..(l - 1)) \ sample

\* [arg[i] for i in indices]
Pick(arg, indices) == [j \in DOMAIN indices |-> arg[indices[j] + 1]]

\* makeTrainTest(*args, testPercent = num / den), random.sample returning sample.
makeTrainTest(args, num, den, sample) ==
    IF Len(args) = 0 THEN [err |-> "IndexError"]
    ELSE IF \E a \in DOMAIN args : Len(args[a]) # Len(args[1])
    THEN [err |-> "AssertionError"]
    ELSE LET l == Len(args[1])
             trainIndices == Sorted(TrainIndexSet(l, sample))
             testIndices == Sorted(sample)
         IN  [err |-> "none",
              trainIndices |-> trainIndices,
              testIndices |-> testIndices,
              train |-> [a \in DOMAIN args |-> Pick(args[a], trainIndices)],
              test |-> [a \in DOMAIN args |-> Pick(args[a], testIndices)]]

\* A call with the sample drawn among the outcomes random.sample can have; a
\* call that raises before the sample is drawn draws none.
TrainTestCall(caller, args, num, den) ==
    LET call == [op |-> "makeTrainTest", caller |-> caller, args |-> args,
                 num |-> num, den |-> den]
        early == makeTrainTest(args, num, den, {})
    IN  IF early.err # "none"
        THEN last' = call @@ early
        ELSE \E sample \in Samples(Len(args[1]), SampleSize(Len(args[1]), num, den)) :
                last' = call @@ makeTrainTest(args, num, den, sample)

MakeTrainTest ==
    /\ \E args \in ArgLists, f \in TestPercents :
          TrainTestCall("any", args, f[1], f[2])
    /\ UNCHANGED <<cornellFiles, cornellObject, writerState, ubuntuState>>

\* __main__: makeTrainTest(yearInput, yearOutput), testPercent left at 0.1.
MainTrainTest ==
    /\ last.op = "makeYearFiles"
    /\ TrainTestCall("main", <<last.inputs, last.outputs>>, 1, 10)
    /\ UNCHANGED <<cornellFiles, cornellObject, writerState, ubuntuState>>

-----------------------------------------------------------------------------
(* writeToFile *)

\* sep.join(lines) on sequences of characters.
RECURSIVE Join(_, _)
Join(lines, sep) ==
    IF lines = <<>> THEN <<>>
    ELSE IF Len(lines) = 1 THEN lines[1]
    ELSE lines[1] \o sep \o Join(Tail(lines), sep)

Newline == <<"\n">>

\* A faulty variant: f.writelines(lines), which writes no separator.
WrittenLines(lines) == Join(lines, <<>>)

\* What f.write leaves in a file opened with "w".
Written(lines) == Join(lines, Newline)

WriteToFile ==
    /\ \E prompt \in SeqsUpTo(Strs, MaxWriteLines),
          response \in SeqsUpTo(Strs, MaxWriteLines),
          filename \in FileStems :
          /\ outDir' = TRUE
          /\ outFiles' = [outFiles EXCEPT ![<<filename, "enc">>] = Written(prompt),
                                          ![<<filename, "dec">>] = Written(response)]
          /\ last' = [op |-> "writeToFile", prompt |-> prompt,
                      response |-> response, filename |-> filename]
    /\ UNCHANGED <<cornellFiles, cornellObject, ubuntuState>>

-----------------------------------------------------------------------------
(* _UbuntuDialogCorpus.maybeDownload and getData *)

UbuntuPath == "data/ubuntu_dialog_corpus"

\* The directory afterwards and the exception raised, if any.
maybeDownload ==
    IF ~ubuntuDir
    THEN [dir |-> TRUE, err |-> "FileExistsError", path |-> UbuntuPath]
    ELSE [dir |-> ubuntuDir, err |-> "none", path |-> UbuntuPath]

\* The rows of train.csv that yield a pair: labelled 1.0, with fewer than two
\* __eou__ in the response.  The texts themselves are not modelled.
KeptRows(rows) ==
    LET keep == {r \in DOMAIN rows : rows[r].label = 1 /\ rows[r].eous < 2}
    IN  Sorted(keep)

ubuntuGetData ==
    LET checked == maybeDownload
    IN  IF checked.err # "none" THEN checked
        ELSE IF ~trainCsv.exists
        THEN [dir |-> checked.dir, err |-> "FileNotFoundError", path |-> UbuntuPath]
        ELSE [dir |-> checked.dir, err |-> "none", path |-> UbuntuPath,
              pairs |-> KeptRows(trainCsv.rows)]

UbuntuCall(op, outcome) ==
    /\ Len(history) < MaxCalls
    /\ ubuntuDir' = outcome.dir
    /\ history' = Append(history, [op |-> op, err |-> outcome.err,
                                   path |-> outcome.path])
    /\ last' = [op |-> op] @@ outcome
    /\ UNCHANGED <<trainCsv, cornellFiles, cornellObject, writerState>>

UbuntuMaybeDownload == UbuntuCall("maybeDownload", maybeDownload)

UbuntuGetData == UbuntuCall("getData", ubuntuGetData)

-----------------------------------------------------------------------------
(* The corpus files the specifications start from *)

\* The conversation files of at most r rows holding at most t line IDs.
RECURSIVE ConvFilesOf(_, _)
ConvFilesOf(t, r) ==
    IF r = 0 THEN {<<>>}
    ELSE {<<>>} \cup
         UNION {{<<row>> \o rest : rest \in ConvFilesOf(t - Len(row), r - 1)} :
                row \in SeqsUpTo(LineIds, t)}

\* The line tables of at most n rows.  The code copies a line's text and never
\* looks into it, so row i carries the text i: pairwise distinct texts are the
\* general case.
LineFilesOf(n, ids, chars, movies) ==
    UNION {{[i \in 1..k |-> [id |-> id[i], char |-> char[i],
                             movie |-> movie[i], text |-> i]] :
            id \in [1..k -> ids], char \in [1..k -> chars],
            movie \in [1..k -> movies]} : k \in 0..n}

MetaFiles == SeqsUpTo([id : CharIds, name : MetaNames], MaxMeta)

TitleFiles == SeqsUpTo([id : MovieIds, year : Years], MaxTitles)

\* train.csv: whether it exists and, of each row, the label and the number of
\* __eou__ in the response.
NoCsv == [exists |-> FALSE, rows |-> <<>>]
CsvFiles ==
    {[exists |-> TRUE, rows |-> rows] :
     rows \in SeqsUpTo([label : {0, 1}, eous : 0..2], MaxCsvRows)}

\* A line table with one row per line ID, for the specifications that vary
\* another file.
FullLines ==
    <<[id |-> "L1", char |-> "u0", movie |-> "m0", text |-> 1],
      [id |-> "L2", char |-> "u1", movie |-> "m0", text |-> 2],
      [id |-> "L3", char |-> "u0", movie |-> "m1", text |-> 3]>>

Unloaded ==
    /\ loaded = FALSE
    /\ conversations = <<>>
    /\ lineMap = <<>>
    /\ charMap = <<>>
    /\ prevLineMap = <<>>

NoOutput ==
    /\ outDir = FALSE
    /\ outFiles = [f \in FileNames |-> NoFile]

NoUbuntu ==
    /\ ubuntuDir = FALSE
    /\ trainCsv = NoCsv
    /\ history = <<>>

NoCorpus ==
    /\ convFile = <<>>
    /\ linesFile = <<>>
    /\ metaFile = <<>>
    /\ titlesFile = <<>>
    /\ Unloaded

-----------------------------------------------------------------------------
(* Specifications *)

\* The index of previous lines, over every conversation file.
InitPrev ==
    /\ convFile \in ConvFilesOf(MaxTokens, MaxConvs)
    /\ linesFile = FullLines
    /\ metaFile = <<>>
    /\ titlesFile = <<>>
    /\ Unloaded /\ NoOutput /\ NoUbuntu
    /\ last = NoCall

NextPrev == CornellInit \/ GetData

SpecPrev == InitPrev /\ [][NextPrev]_vars

\* The pair extractors, over every line table and conversation file.
InitPairs ==
    /\ convFile \in ConvFilesOf(MaxPairTokens, MaxPairConvs)
    /\ linesFile \in LineFilesOf(MaxLines, LineIds, CharIds, {"m0"})
    /\ metaFile = <<>>
    /\ titlesFile = <<>>
    /\ Unloaded /\ NoOutput /\ NoUbuntu
    /\ last = NoCall

NextPairs == CornellInit \/ GetData \/ GetCharacterById

SpecPairs == InitPairs /\ [][NextPairs]_vars

\* The character map, over every metadata file.
InitChars ==
    /\ convFile = <<<<"L1", "L2", "L3">>>>
    /\ linesFile = FullLines
    /\ metaFile \in MetaFiles
    /\ titlesFile = <<>>
    /\ Unloaded /\ NoOutput /\ NoUbuntu
    /\ last = NoCall

NextChars == CornellInit \/ CharacterToId \/ GetCharacterByName

SpecChars == InitChars /\ [][NextChars]_vars

\* The year files and their train/test split, as __main__ makes them.
InitYear ==
    /\ convFile = <<>>
    /\ linesFile \in LineFilesOf(MaxYearLines, {"L1"}, {"u0"}, MovieIds)
    /\ metaFile = <<>>
    /\ titlesFile \in TitleFiles
    /\ Unloaded /\ NoOutput /\ NoUbuntu
    /\ last = NoCall

NextYear == CornellInit \/ MakeYearFiles \/ MainTrainTest

SpecYear == InitYear /\ [][NextYear]_vars

\* makeTrainTest on its own: one call per behaviour, since a call reads nothing
\* an earlier call leaves.
InitPartition ==
    /\ NoCorpus /\ NoOutput /\ NoUbuntu
    /\ last = NoCall

NextPartition == last = NoCall /\ MakeTrainTest

SpecPartition == InitPartition /\ [][NextPartition]_vars

\* writeToFile, into a directory that may hold earlier files: one call per
\* behaviour, since a call reads nothing of what the directory holds.
StaleContent == <<"o", "l", "d", "\n">>

InitWriter ==
    /\ NoCorpus /\ NoUbuntu
    /\ outDir \in BOOLEAN
    /\ outFiles \in [FileNames -> IF outDir THEN {NoFile, StaleContent} ELSE {NoFile}]
    /\ last = NoCall

NextWriter == last = NoCall /\ WriteToFile

SpecWriter == InitWriter /\ [][NextWriter]_vars

\* The Ubuntu corpus, with and without its directory and its train.csv.
InitUbuntu ==
    /\ NoCorpus /\ NoOutput
    /\ ubuntuDir \in BOOLEAN
    /\ trainCsv \in IF ubuntuDir THEN CsvFiles \cup {NoCsv} ELSE {NoCsv}
    /\ history = <<>>
    /\ last = NoCall

NextUbuntu == UbuntuMaybeDownload \/ UbuntuGetData

SpecUbuntu == InitUbuntu /\ [][NextUbuntu]_vars

-----------------------------------------------------------------------------
(* Properties of makeTrainTest *)

Abs(x) == IF x < 0 THEN -x ELSE x

\* C1: a call of makeTrainTest with at least one column, all columns of one
\* length N, and testPercent = num/den in [0, 1] returns, whatever the sample:
\* the test indices are round(N * num / den) distinct indices (the nearest
\* integer, a tie going to the even one), the train and test index sets are
\* disjoint with union 0..N-1, and every column's train and test parts have
\* N entries together.
C1_PartitionConservation ==
    (last.op = "makeTrainTest" /\ Len(last.args) > 0
       /\ \A a \in DOMAIN last.args : Len(last.args[a]) = Len(last.args[1]))
    => LET N == Len(last.args[1])
           k == Len(last.testIndices)
           test == Range(last.testIndices)
           train == Range(last.trainIndices)
           off == Abs(k * last.den - N * last.num)
       IN  /\ last.err = "none"
           /\ 2 * off <= last.den
           /\ (2 * off = last.den => k % 2 = 0)
           /\ Cardinality(test) = k
           /\ Cardinality(train) = Len(last.trainIndices)
           /\ test \cap train = {}
           /\ test \cup train = 0..(N - 1)
           /\ \A a \in DOMAIN last.args :
                 Len(last.train[a]) + Len(last.test[a]) = N

\* A split of three entries at one half: 1.5 rounds to 2 test entries.
C1_Witness ==
    /\ last.op = "makeTrainTest"
    /\ last.err = "none"
    /\ Len(last.args) = 2
    /\ Len(last.args[1]) = 3
    /\ last.num = 1 /\ last.den = 2
    /\ Len(last.testIndices) = 2
    /\ Len(last.trainIndices) = 1

-----------------------------------------------------------------------------
(* Properties of the previous-line map *)

\* The places <<row, position>> of the conversation file where line ID x
\* stands as a non-first element.
ResponsePlaces(x) ==
    {p \in UNION {{<<r, j>> : j \in 2..Len(convFile[r])} : r \in DOMAIN convFile} :
        convFile[p[1]][p[2]] = x}

Later(p, q) == p[1] > q[1] \/ (p[1] = q[1] /\ p[2] > q[2])

\* The last of them in file order.
LastPlace(x) ==
    CHOOSE p \in ResponsePlaces(x) : \A q \in ResponsePlaces(x) : p = q \/ Later(p, q)

NoRepeats(ids) == \A i, j \in DOMAIN ids : ids[i] = ids[j] => i = j

\* C2, as stated: after loading, every row [a, b, c] has b -> a and c -> b in
\* the map and no entry for a, and the first element of any row has no entry.
\* Stated here for files whose rows repeat no ID within a row, which is less
\* than the claim says.
C2_FirstHasNoEntry ==
    (loaded /\ \A r \in DOMAIN convFile : NoRepeats(convFile[r]))
    => \A r \in DOMAIN convFile :
          LET ids == convFile[r]
          IN  /\ Len(ids) = 3 =>
                    /\ DictHas(prevLineMap, ids[2])
                    /\ DictGet(prevLineMap, ids[2]) = ids[1]
                    /\ DictHas(prevLineMap, ids[3])
                    /\ DictGet(prevLineMap, ids[3]) = ids[2]
              /\ Len(ids) >= 1 => ~DictHas(prevLineMap, ids[1])

\* C2, amended: after loading, a line ID has an entry exactly when it stands
\* as a non-first element of some row; every non-first element of a row has an
\* entry, which is its predecessor at that place unless the ID stands as a
\* non-first element again later in the file.  So a row [a, b, c] gives b -> a
\* and c -> b unless overwritten later, and a has no entry only when a is a
\* non-first element of no row.
C2_EntryIffResponse ==
    loaded =>
       /\ \A x \in LineIds : DictHas(prevLineMap, x) <=> ResponsePlaces(x) # {}
       /\ \A r \in DOMAIN convFile : \A j \in 2..Len(convFile[r]) :
             LET x == convFile[r][j]
             IN  /\ DictHas(prevLineMap, x)
                 /\ (\A q \in ResponsePlaces(x) : ~Later(q, <<r, j>>))
                        => DictGet(prevLineMap, x) = convFile[r][j - 1]

\* A row [a, b, c] of three different IDs, loaded, whose first element a has an
\* entry and whose entries for b and c stand.
C2_Witness ==
    /\ loaded
    /\ \E r \in DOMAIN convFile :
          /\ Len(convFile[r]) = 3
          /\ NoRepeats(convFile[r])
          /\ DictHas(prevLineMap, convFile[r][1])
          /\ DictGet(prevLineMap, convFile[r][3]) = convFile[r][2]
    /\ \A r \in DOMAIN convFile : NoRepeats(convFile[r])

\* C9: after loading, a line ID that is a non-first element of several rows
\* maps to its predecessor in the last such row (at its last place in that
\* row); the map holds one entry per key; and loading one more row leaves the
\* entry of every key that is no non-first element of that row as it was.
C9_LastConversationWins ==
    loaded =>
       /\ \A x \in LineIds : ResponsePlaces(x) # {} =>
             LET p == LastPlace(x)
             IN  /\ DictHas(prevLineMap, x)
                 /\ DictGet(prevLineMap, x) = convFile[p[1]][p[2] - 1]
       /\ Cardinality(Range(DictKeys(prevLineMap))) = Len(prevLineMap)
       /\ \A n \in 0..(Len(conversations) - 1) :
             LET before == BuildPrevLineMap(<<>>, SubSeq(conversations, 1, n))
                 after == BuildPrevLineMap(<<>>, SubSeq(conversations, 1, n + 1))
                 row == conversations[n + 1]
             IN  \A x \in LineIds :
                    (DictHas(before, x) /\ \A j \in 2..Len(row) : row[j] # x)
                    => DictHas(after, x) /\ DictGet(after, x) = DictGet(before, x)

\* Two rows with the same second element after different first elements, and a
\* key the second row does not share.
C9_Witness ==
    /\ loaded
    /\ Len(convFile) = 2
    /\ Len(convFile[1]) = 3
    /\ Len(convFile[2]) = 2
    /\ convFile[1][2] = convFile[2][2]
    /\ convFile[1][1] # convFile[2][1]
    /\ NoRepeats(convFile[1])
    /\ NoRepeats(convFile[2])
    /\ DictGet(prevLineMap, convFile[2][2]) = convFile[2][1]
    /\ DictGet(prevLineMap, convFile[1][3]) = convFile[1][2]

-----------------------------------------------------------------------------
(* Properties of the pair extractors *)

\* Whether the line table has a row for line ID x, and the text of the last
\* such row: what the line map holds for x.
HasText(x) == \E r \in DOMAIN linesFile : linesFile[r].id = x

TextOf(x) ==
    LET rows == {r \in DOMAIN linesFile : linesFile[r].id = x}
    IN  linesFile[CHOOSE r \in rows : \A q \in rows : q <= r].text

UniqueLineIds ==
    \A r, q \in DOMAIN linesFile : linesFile[r].id = linesFile[q].id => r = q

\* C3: getData returns two lists of one length, with one position per key of
\* the previous-line map, in the map's key order in both lists: at the place
\* of key k the response is the text of line k and the prompt the text of k's
\* predecessor.  (It returns when every key and predecessor is in the line
\* table, and raises KeyError otherwise.)
C3_PairPerKey ==
    last.op = "getData" =>
       LET keys == DictKeys(prevLineMap)
           complete == \A i \in DOMAIN keys :
                          HasText(keys[i]) /\ HasText(DictGet(prevLineMap, keys[i]))
       IN  IF ~complete THEN last.err = "KeyError"
           ELSE /\ last.err = "none"
                /\ Len(last.prompt) = Len(last.response)
                /\ Len(last.response) =
                      Cardinality({x \in LineIds : ResponsePlaces(x) # {}})
                /\ Range(keys) = {x \in LineIds : ResponsePlaces(x) # {}}
                /\ \A i \in DOMAIN keys :
                      /\ last.response[i] = TextOf(keys[i])
                      /\ last.prompt[i] = TextOf(DictGet(prevLineMap, keys[i]))

\* getData returning two pairs whose prompts and responses all differ.
C3_Witness ==
    /\ last.op = "getData"
    /\ last.err = "none"
    /\ Len(last.response) = 2
    /\ last.prompt[1] # last.prompt[2]
    /\ last.response[1] # last.response[2]
    /\ last.prompt[1] # last.response[1]

\* The rows of the line table, in file order, of character c whose line ID has
\* an entry in the previous-line map.
ResponseRows(c) ==
    SelectSeq([r \in DOMAIN linesFile |-> r],
              LAMBDA r : /\ linesFile[r].char = c
                         /\ ResponsePlaces(linesFile[r].id) # {})

\* C4: getCharacter(characterId = c) emits, in the line table's file order, one
\* pair for each row of character c whose line ID is a key of the previous-line
\* map, and nothing for any other row: the response is the text the line table
\* holds for that line ID (the row's own text when line IDs are unique) and the
\* prompt the text of its predecessor.  (It returns when every such predecessor
\* is in the line table, and raises KeyError otherwise.)
C4_CharacterFilter ==
    (last.op = "getCharacter" /\ last.characterId # None) =>
       LET rows == ResponseRows(last.characterId)
           prev(i) == DictGet(prevLineMap, linesFile[rows[i]].id)
       IN  IF \E i \in DOMAIN rows : ~HasText(prev(i))
           THEN last.err = "KeyError"
           ELSE /\ last.err = "none"
                /\ Len(last.prompt) = Len(rows)
                /\ Len(last.response) = Len(rows)
                /\ \A i \in DOMAIN rows :
                      /\ last.response[i] = TextOf(linesFile[rows[i]].id)
                      /\ UniqueLineIds => last.response[i] = linesFile[rows[i]].text
                      /\ last.prompt[i] = TextOf(prev(i))

\* One pair emitted from a table of two rows of the same character with
\* different line IDs: the other row opens the conversation and emits nothing.
C4_Witness ==
    /\ last.op = "getCharacter"
    /\ last.characterId # None
    /\ last.err = "none"
    /\ Len(linesFile) = 2
    /\ linesFile[1].char = last.characterId
    /\ linesFile[2].char = last.characterId
    /\ linesFile[1].id # linesFile[2].id
    /\ Len(last.response) = 1
    /\ last.response[1] # last.prompt[1]

-----------------------------------------------------------------------------
(* Properties of the character map *)

\* The rows of the metadata file whose name, lower-cased, is that of name.
NameRows(name) ==
    {r \in DOMAIN metaFile : Lower(metaFile[r].name) = Lower(name)}

FirstRow(rows) == CHOOSE r \in rows : \A q \in rows : r <= q
LastRow(rows) == CHOOSE r \in rows : \A q \in rows : q <= r

\* C6: getCharacter called with a character name the character map has no
\* entry for, the map being empty or not, returns an empty pair of lists and
\* does not raise.
C6_UnknownNameIsEmpty ==
    (last.op = "getCharacter" /\ last.characterId = None
       /\ last.characterName # NoName /\ NameRows(last.characterName) = {})
    => /\ last.err = "none"
       /\ last.prompt = <<>>
       /\ last.response = <<>>

\* C8, as stated: when several rows of the metadata file have the same name
\* after lower-casing, the character map holds the ID of the first of them,
\* and characterToId returns it for any casing of the name.
C8_FirstOccurrenceWins ==
    loaded =>
       /\ \A r \in DOMAIN metaFile :
             LET key == Lower(metaFile[r].name)
             IN  /\ DictHas(charMap, key)
                 /\ DictGet(charMap, key) = metaFile[FirstRow(NameRows(key))].id
       /\ (last.op = "characterToId" /\ NameRows(last.name) # {})
             => /\ last.err = "none"
                /\ last.id = metaFile[FirstRow(NameRows(last.name))].id

\* C8, amended: when several rows of the metadata file have the same name
\* after lower-casing, the character map holds the ID of the last of them in
\* file order, and characterToId returns it for any casing of the name.
C8_LastOccurrenceWins ==
    loaded =>
       /\ \A r \in DOMAIN metaFile :
             LET key == Lower(metaFile[r].name)
             IN  /\ DictHas(charMap, key)
                 /\ DictGet(charMap, key) = metaFile[LastRow(NameRows(key))].id
       /\ (last.op = "characterToId" /\ NameRows(last.name) # {})
             => /\ last.err = "none"
                /\ last.id = metaFile[LastRow(NameRows(last.name))].id

\* Two rows with names that differ in casing only and with different IDs, and
\* characterToId asked for the name in a third casing.
C8_Witness ==
    /\ loaded
    /\ Len(metaFile) = 2
    /\ metaFile[1].name # metaFile[2].name
    /\ Lower(metaFile[1].name) = Lower(metaFile[2].name)
    /\ metaFile[1].id # metaFile[2].id
    /\ last.op = "characterToId"
    /\ last.name \notin {metaFile[1].name, metaFile[2].name}
    /\ last.err = "none"
    /\ last.id = metaFile[2].id

-----------------------------------------------------------------------------
(* Properties of the year files *)

\* C5: makeYearFiles pairs the flat sequence s of the matched movies' lines by
\* position: prompt k is s[2k] and response k is s[2k+1], counted from 0, a
\* last unmatched line is dropped, and both lists have floor(len(s)/2)
\* entries, so that makeTrainTest accepts them.
C5_YearPairsAligned ==
    /\ last.op = "makeYearFiles" =>
          /\ Len(last.inputs) = Len(last.flat) \div 2
          /\ Len(last.outputs) = Len(last.flat) \div 2
          /\ \A k \in 1..(Len(last.flat) \div 2) :
                /\ last.inputs[k] = last.flat[2 * k - 1]
                /\ last.outputs[k] = last.flat[2 * k]
    /\ (last.op = "makeTrainTest" /\ last.caller = "main") => last.err = "none"

-----------------------------------------------------------------------------
(* Properties of writeToFile *)

\* Every line followed by a newline.
RECURSIVE Terminated(_)
Terminated(lines) ==
    IF lines = <<>> THEN <<>>
    ELSE lines[1] \o <<"\n">> \o Terminated(Tail(lines))

\* C7, as stated: after writeToFile the .enc file holds every prompt, and the
\* .dec file every response, in input order, each followed by a newline, the
\* last one too, in place of what the file held before.
C7_EveryLineTerminated ==
    last.op = "writeToFile" =>
       /\ outFiles[<<last.filename, "enc">>] = Terminated(last.prompt)
       /\ outFiles[<<last.filename, "dec">>] = Terminated(last.response)

\* C7, amended: after writeToFile the .enc file holds every prompt, and the
\* .dec file every response, in input order, with one newline between
\* consecutive strings and none after the last, in place of what the file held
\* before; an empty list yields an empty file.
C7_LinesSeparated ==
    last.op = "writeToFile" =>
       LET separated(lines) ==
               IF lines = <<>> THEN <<>>
               ELSE SubSeq(Terminated(lines), 1, Len(Terminated(lines)) - 1)
       IN  /\ outDir
           /\ outFiles[<<last.filename, "enc">>] = separated(last.prompt)
           /\ outFiles[<<last.filename, "dec">>] = separated(last.response)

\* Two prompts written over an earlier train.enc, and no response over an
\* earlier train.dec.
C7_Witness ==
    /\ last.op = "writeToFile"
    /\ last.filename = "train"
    /\ last.prompt = <<<<"h", "i">>, <<"h", "i">>>>
    /\ last.response = <<>>
    /\ outFiles[<<"train", "enc">>] = <<"h", "i", "\n", "h", "i">>
    /\ outFiles[<<"train", "dec">>] = <<>>
    /\ outFiles[<<"test", "enc">>] = StaleContent

-----------------------------------------------------------------------------
(* Properties of the Ubuntu corpus *)

\* C10: while train.csv is absent, every call of maybeDownload or getData
\* fails with the error that names the expected path, a call after an earlier
\* failed call too.  Stated here for the calls that follow a first call that
\* failed so, which is less than the claim says.
C10_SameErrorAgain ==
    (~trainCsv.exists /\ history # <<>> /\ history[1].err = "FileExistsError")
    => \A i \in DOMAIN history :
          /\ history[i].err = "FileExistsError"
          /\ history[i].path = UbuntuPath

=============================================================================
